---- MODULE Spec2Model ----
(***************************************************************************)
(* BentoAnalytics: the incremental APY ingestion of app.js and its four    *)
(* fetch functions (mountain, spark, ethena, morpho), the two cursor files *)
(* and the block-by-timestamp binary search.                               *)
(*                                                                         *)
(* Every await of a fetch function is a point where another callback of    *)
(* the event loop may run, so a run is a little process: one action per    *)
(* stretch of code between two awaits that touch shared state (the cursor  *)
(* files, the module's write buffer, the sink).  The cursor files are read *)
(* and written with the synchronous fs calls, so a get or a set is atomic. *)
(* The file system is taken to be reliable and the cursor files to hold an *)
(* integer for every key.                                                  *)
(***************************************************************************)
EXTENDS Integers, Sequences, FiniteSets, TLC

VARIABLES
  now,        \* Math.floor(Date.now() / 1000)
  store,      \* data/last_timestamp.json: protocol key -> timestamp
  blockStore, \* data/ethena_last_block.json: lastBlock
  buffer,     \* per module: the points handed to its writeApi and not yet flushed
  sink,       \* the points InfluxDB has committed
  run,        \* the runs of the fetch functions, by run id
  nextRun,    \* the id the next run gets
  initPos,    \* how many fetches the initial-fetch IIFE of app.js has started
  initRun,    \* the run the IIFE is awaiting (0: none)
  planned,    \* history: per source, the targets of its Completed runs, in order
  probe       \* one call of getBlockNumberByTimestamp on an oracle of its own

vars == <<now, store, blockStore, buffer, sink, run, nextRun, initPos, initRun, planned,
          probe>>

-----------------------------------------------------------------------------
(* Bounds of the model *)

\* runs started in one behaviour
MaxRuns == 2
\* advances of the clock in one behaviour
MaxTicks == 4
\* the largest number of pending intervals of a run the model starts
MaxIntervals == 2
\* the new blocks one ethena run finds are at most MaxBlocks
MaxBlocks == 3

-----------------------------------------------------------------------------
(* Time and chain *)

\* README, "Initial timestamp": the anchor the cursor file is seeded with
StartTimestamp == 1726628400

\* the clock advances in steps of 12 hours: 1.5 spark intervals, half a mountain interval
TickSeconds == 12 * 3600

\* the chain oracle of the ingestion runs: a block every BlockSeconds, block 1 at the anchor
BlockSeconds == 12 * 3600
ChainStart == StartTimestamp - BlockSeconds
BlockTimestamp(b) == ChainStart + b * BlockSeconds
\* provider.getBlockNumber()
LatestBlock(t) == (t - ChainStart) \div BlockSeconds

Sources == {"mountain", "spark", "ethena", "morpho"}
TimestampSources == {"mountain", "spark"}
\* the keys of last_timestamp.json
TimestampKeys == {"mountain", "spark", "USDC", "USDT"}

\* const interval = 24 * 3600 (mountain), 8 * 3600 (spark)
interval(s) == IF s = "mountain" THEN 24 * 3600 ELSE 8 * 3600

-----------------------------------------------------------------------------
(* utils/timestampTracker.js *)

\* a search that moves earliest past mid without keeping mid as closestBlock
RECURSIVE SearchForgetful(_, _, _, _, _, _)
SearchForgetful(ts, avail, target, earliest, latest, closestBlock) ==
  IF earliest > latest THEN closestBlock
  ELSE LET mid == (earliest + latest) \div 2 IN
       IF mid \notin avail THEN closestBlock
       ELSE IF ts[mid] = target THEN mid
       ELSE IF ts[mid] < target
            THEN SearchForgetful(ts, avail, target, mid + 1, latest, closestBlock)
            ELSE SearchForgetful(ts, avail, target, earliest, mid - 1, closestBlock)

\* a search that keeps mid as closestBlock also when its block is after the target
RECURSIVE SearchKeepsLater(_, _, _, _, _, _)
SearchKeepsLater(ts, avail, target, earliest, latest, closestBlock) ==
  IF earliest > latest THEN closestBlock
  ELSE LET mid == (earliest + latest) \div 2 IN
       IF mid \notin avail THEN closestBlock
       ELSE IF ts[mid] = target THEN mid
       ELSE IF ts[mid] < target
            THEN SearchKeepsLater(ts, avail, target, mid + 1, latest, mid)
            ELSE SearchKeepsLater(ts, avail, target, earliest, mid - 1, mid)

\* a search that answers the block it could not fetch
RECURSIVE SearchReturnsMissing(_, _, _, _, _, _)
SearchReturnsMissing(ts, avail, target, earliest, latest, closestBlock) ==
  IF earliest > latest THEN closestBlock
  ELSE LET mid == (earliest + latest) \div 2 IN
       IF mid \notin avail THEN mid
       ELSE IF ts[mid] = target THEN mid
       ELSE IF ts[mid] < target
            THEN SearchReturnsMissing(ts, avail, target, mid + 1, latest, mid)
            ELSE SearchReturnsMissing(ts, avail, target, earliest, mid - 1, closestBlock)

\* The binary search of getBlockNumberByTimestamp over the oracle ts (block ->
\* timestamp) whose blocks in avail can be fetched; a block that cannot ends it.
RECURSIVE Search(_, _, _, _, _, _)
Search(ts, avail, target, earliest, latest, closestBlock) ==
  IF earliest > latest THEN closestBlock
  ELSE LET mid == (earliest + latest) \div 2 IN
       IF mid \notin avail THEN closestBlock
       ELSE IF ts[mid] = target THEN mid
       ELSE IF ts[mid] < target
            THEN Search(ts, avail, target, mid + 1, latest, mid)
            ELSE Search(ts, avail, target, earliest, mid - 1, closestBlock)

\* the probes of a search that, above the target, gives up one block only
RECURSIVE ProbesLinear(_, _, _, _, _)
ProbesLinear(ts, avail, target, earliest, latest) ==
  IF earliest > latest THEN <<>>
  ELSE LET mid == (earliest + latest) \div 2 IN
       IF mid \notin avail \/ ts[mid] = target THEN <<mid>>
       ELSE IF ts[mid] < target
            THEN <<mid>> \o ProbesLinear(ts, avail, target, mid + 1, latest)
            ELSE <<mid>> \o ProbesLinear(ts, avail, target, earliest, latest - 1)

\* history: the blocks the loop asks provider.getBlock for, in order
RECURSIVE Probes(_, _, _, _, _)
Probes(ts, avail, target, earliest, latest) ==
  IF earliest > latest THEN <<>>
  ELSE LET mid == (earliest + latest) \div 2 IN
       IF mid \notin avail \/ ts[mid] = target THEN <<mid>>
       ELSE IF ts[mid] < target
            THEN <<mid>> \o Probes(ts, avail, target, mid + 1, latest)
            ELSE <<mid>> \o Probes(ts, avail, target, earliest, mid - 1)

\* history: <<earliest, latest>> at every test of the condition of the while loop
RECURSIVE Ranges(_, _, _, _, _)
Ranges(ts, avail, target, earliest, latest) ==
  IF earliest > latest THEN << <<earliest, latest>> >>
  ELSE LET mid == (earliest + latest) \div 2 IN
       IF mid \notin avail \/ ts[mid] = target THEN << <<earliest, latest>> >>
       ELSE IF ts[mid] < target
            THEN << <<earliest, latest>> >> \o Ranges(ts, avail, target, mid + 1, latest)
            ELSE << <<earliest, latest>> >> \o Ranges(ts, avail, target, earliest, mid - 1)

getBlockNumberByTimestamp(ts, avail, latestBlock, targetTimestamp) ==
  Search(ts, avail, targetTimestamp, 0, latestBlock, 0)

\* the search of a run, on the run's chain with every block available
ResolveBlock(t, targetTimestamp) ==
  LET latestBlock == LatestBlock(t)
      ts == [b \in 0..latestBlock |-> BlockTimestamp(b)]
  IN getBlockNumberByTimestamp(ts, 0..latestBlock, latestBlock, targetTimestamp)

\* The values of JavaScript that are not integers, as they reach the cursors. The
\* timestamps and block numbers of the model are positive, so a comparison of one of
\* them with Undefined or NotANumber is false, as it is in JavaScript.
Undefined == 0 - 1    \* undefined: json[protocol] of a key the file does not have
NotANumber == 0 - 2   \* NaN
Null == 0 - 3         \* null: what JSON.stringify writes for NaN

\* the number an arithmetic operator makes of x; NotANumber for undefined and NaN
ToNumber(x) == IF x = Null THEN 0 ELSE IF x = Undefined THEN NotANumber ELSE x

\* JSON.parse(JSON.stringify(v)) of the value of a key
Json(v) == IF v = NotANumber THEN Null ELSE v

\* a file cut short by a write that did not finish: JSON.parse throws on it
Torn == 0 - 4

\* a set that writes a file holding the one key it was given
setLastFetchedTimestampAlone(file, protocol, timestamp) ==
  [k \in DOMAIN file |-> IF k = protocol THEN timestamp ELSE Undefined]

\* The file is the function from its keys to their values; a key it does not have, and
\* every key of a file that does not exist, reads as Undefined. A torn file has Torn
\* at every key: the catch logs the error and the function returns nothing.
getLastFetchedTimestamp(file, protocol) ==
  IF file[protocol] = Torn THEN Undefined ELSE file[protocol]

\* data = JSON.parse(file) (or {}); data[protocol] = timestamp; the file is rewritten.
\* On a torn file JSON.parse throws and the catch skips the write.
setLastFetchedTimestamp(file, protocol, timestamp) ==
  IF file[protocol] = Torn THEN file
  ELSE [k \in DOMAIN file |-> IF k = protocol THEN Json(timestamp) ELSE Json(file[k])]

-----------------------------------------------------------------------------
(* Runs *)

RunIds == 1..MaxRuns
\* Completed, SkippedNoWork, Aborted: the function returned; Killed: the process ended
Terminal == {"Completed", "SkippedNoWork", "Aborted", "Killed"}

\* The locals of a run. last: the cursor it read; N, i: intervalsToProcess and the loop
\* index (mountain, spark); prev: previousMultiplier; latest: latestBlock (ethena),
\* apyData[0].x (morpho); logs: the logs still to process (ethena); vault: the index
\* of the vault (morpho).
\* History only: fresh (no clock tick since it started), hist (the readings fetched so
\* far, mountain; for each log passed its block, or NoReading when it failed, ethena),
\* emitted (the points it wrote) and effects (what it did: "oracle",
\* "aggregator", "write", "flush" called, "committed" when its flush resolved, "cursor",
\* "rejected" when a call of the chain oracle rejected, "threw" when a value that is
\* not a number ended it, and for morpho the keys of the vaults it got data for).
IdleRun ==
  [src |-> "none", pc |-> "idle", last |-> 0, N |-> 0, i |-> 0,
   prev |-> 0, latest |-> 0, logs |-> <<>>, vault |-> 0,
   fresh |-> FALSE, hist |-> <<>>, emitted |-> 0, effects |-> {}]

\* hist's entry for an interval whose reading was not fetched
NoReading == 0 - 1

InFlight(r) == run[r].pc \notin Terminal \cup {"idle"}

\* The function returns, or dies with the process: its locals are gone. What stays is
\* the record of what the run planned and did.
Return(rec, outcome) ==
  [IdleRun EXCEPT !.src = rec.src, !.pc = outcome, !.fresh = rec.fresh,
                  !.effects = rec.effects]

Did(rec, what) == [rec EXCEPT !.effects = @ \cup what]

\* a point of protocol_apy_data; run is the id of the run that wrote it (not a field
\* of the point: it names the writer)
Point(protocol, ts, apy, r) == [protocol |-> protocol, ts |-> ts, apy |-> apy, run |-> r]

-----------------------------------------------------------------------------
\* the process has started: no run yet, nothing buffered, an empty sink
InitProcess ==
  /\ now = StartTimestamp
  /\ buffer = [s \in Sources |-> {}]
  /\ sink = {}
  /\ run = [r \in RunIds |-> IdleRun]
  /\ nextRun = 1
  /\ initPos = 0
  /\ initRun = 0
  /\ planned = [s \in TimestampSources |-> <<>>]

\* the cursor files hold the initial values of the README
InitProgram ==
  /\ InitProcess
  /\ store = [k \in TimestampKeys |-> StartTimestamp]
  /\ blockStore = LatestBlock(StartTimestamp)

\* no call of the resolver on an oracle of its own is under way
Init ==
  /\ InitProgram
  /\ probe = [pc |-> "off"]

\* a clock tick; the chain grows with the clock (LatestBlock)
Tick ==
  /\ now < StartTimestamp + MaxTicks * TickSeconds
  /\ now' = now + TickSeconds
  /\ run' = [r \in RunIds |-> [run[r] EXCEPT !.fresh = FALSE]]
  /\ UNCHANGED <<store, blockStore, buffer, sink, nextRun, initPos, initRun, planned, probe>>

-----------------------------------------------------------------------------
(* scripts/mountain.js and scripts/spark.js *)

\* what one contract read may return: rewardMultiplier() in units of 1e15, ssr() in
\* units of 1e27; 0 is the zero or empty answer
MultiplierReadings == {0, 1000, 1047}
SsrReadings == {0, 1}
Readings(s) == IF s = "mountain" THEN MultiplierReadings ELSE SsrReadings

\* Number.prototype.toFixed(2) of n / d percent, in hundredths of a percent (d > 0)
ToFixed2(n, d) ==
  IF n >= 0 THEN (2 * n * 100 + d) \div (2 * d)
  ELSE 0 - ((2 * (0 - n) * 100 + d) \div (2 * d))

\* dailyApy = ((currentMultiplier / previousMultiplier) - 1) * 100, after toFixed(2);
\* previousMultiplier > 0
MountainApy(currentMultiplier, previousMultiplier) ==
  ToFixed2((currentMultiplier - previousMultiplier) * 100, previousMultiplier)

\* annualApy = (ssrFloat ^ SECONDS_PER_YEAR - 1) * 100 for the one non-zero rate the
\* model reads, ssrFloat = 1
SparkApy(ssr) == (ssr - 1) * 100

\* intervalsToProcess = Math.floor((nowTimestamp - lastTimestamp) / interval)
IntervalsToProcess(nowTimestamp, lastTimestamp, s) ==
  IF ToNumber(lastTimestamp) = NotANumber THEN NotANumber
  ELSE (nowTimestamp - ToNumber(lastTimestamp)) \div interval(s)

\* an early return that lets a run with zero intervals through
NoWorkStrict(intervalsToProcess) == intervalsToProcess < 0

\* if (intervalsToProcess <= 0) return
NoWork(intervalsToProcess) ==
  intervalsToProcess # NotANumber /\ intervalsToProcess <= 0

\* a loop that leaves out the last interval
LoopConditionShort(i, intervalsToProcess) ==
  intervalsToProcess # NotANumber /\ i < intervalsToProcess

\* i <= intervalsToProcess, the condition of the for loop
LoopCondition(i, intervalsToProcess) ==
  intervalsToProcess # NotANumber /\ i <= intervalsToProcess

\* The start of fetchMountainApy / fetchSparkApy up to its first await: the cursor
\* read, the plan, the early return.
Plan(r, s) ==
  LET lastTimestamp == getLastFetchedTimestamp(store, s)
      n == IntervalsToProcess(now, lastTimestamp, s)
      started == [IdleRun EXCEPT !.src = s, !.last = lastTimestamp,
                                 !.N = n, !.fresh = TRUE]
  IN /\ n <= MaxIntervals
     /\ run' = [run EXCEPT ![r] =
          IF NoWork(n) THEN Return(started, "SkippedNoWork")
          ELSE IF s = "mountain" THEN [started EXCEPT !.pc = "seed"]
          ELSE IF LoopCondition(1, n) THEN [started EXCEPT !.pc = "loop", !.i = 1]
          ELSE [started EXCEPT !.pc = "flush", !.i = 1]]

\* mountain: initialBlock and the previousMultiplier read at it. There is no try
\* around it: a rejected call ends the run; a zero answer is kept.
MountainSeed(r) ==
  LET rec == run[r]
      used == Did(rec, {"oracle"})
      initialBlock == ResolveBlock(now, rec.last)
  IN
  /\ rec.pc = "seed"
  /\ initialBlock \in 0..LatestBlock(now)
  /\ \/ run' = [run EXCEPT ![r] = Return(Did(used, {"rejected"}), "Aborted")]
     \/ \E v \in MultiplierReadings :
          run' = [run EXCEPT ![r] =
                    [used EXCEPT !.pc = IF LoopCondition(1, rec.N) THEN "loop"
                                        ELSE "flush",
                                 !.i = 1, !.prev = v, !.hist = <<v>>]]
  /\ UNCHANGED <<now, store, blockStore, buffer, sink, nextRun, initPos, initRun, planned, probe>>

\* the empty-data and zero checks of one reading
SkipReading(v) == v = 0

\* a loop that keeps the seed as previousMultiplier for every interval
NextPreviousSeed(previousMultiplier, currentMultiplier) == previousMultiplier

\* previousMultiplier = currentMultiplier, in an interval that emits a sample
NextPrevious(previousMultiplier, currentMultiplier) == currentMultiplier

\* the end of one pass; after the last one writeApi.flush() is called
AfterInterval(rec) ==
  IF LoopCondition(rec.i + 1, rec.N) THEN [rec EXCEPT !.i = @ + 1]
  ELSE [rec EXCEPT !.i = @ + 1, !.pc = "flush"]

\* One pass of the for loop: the block for the target, its info, the contract read,
\* the point.
Interval(r) ==
  LET rec == run[r]
      s == rec.src
      currentTimestamp == rec.last + rec.i * interval(s)
      blockNum == ResolveBlock(now, currentTimestamp)
      used == Did(rec, {"oracle"})
      read(v) == IF s = "mountain" THEN [used EXCEPT !.hist = Append(@, v)] ELSE used
  IN
  /\ rec.pc = "loop"
  /\ blockNum \in 0..LatestBlock(now)
  /\ \/ \* getBlockNumberByTimestamp or provider.getBlock rejects: the outer catch
        \* ends the run
        /\ run' = [run EXCEPT ![r] = Return(Did(used, {"rejected"}), "Aborted")]
        /\ UNCHANGED buffer
     \/ \* provider.getBlock(blockNum) gives nothing: continue
        /\ run' = [run EXCEPT ![r] = AfterInterval(read(NoReading))]
        /\ UNCHANGED buffer
     \/ \* the contract call rejects, inside its own try: continue
        /\ run' = [run EXCEPT ![r] = AfterInterval(Did(read(NoReading), {"rejected"}))]
        /\ UNCHANGED buffer
     \/ \E v \in Readings(s) :
          IF SkipReading(v)
          THEN /\ run' = [run EXCEPT ![r] = AfterInterval(read(v))]
               /\ UNCHANGED buffer
          ELSE IF s = "mountain" /\ rec.prev = 0
          THEN \* Infinity: Point.floatField throws on a value that is not finite
               /\ run' = [run EXCEPT ![r] = Return(used, "Aborted")]
               /\ UNCHANGED buffer
          ELSE /\ buffer' = [buffer EXCEPT ![s] = @ \cup
                   {Point(s, currentTimestamp,
                          IF s = "mountain" THEN MountainApy(v, rec.prev) ELSE SparkApy(v),
                          r)}]
               /\ run' = [run EXCEPT ![r] = AfterInterval(
                     [Did(read(v), {"write"}) EXCEPT
                        !.prev = IF s = "mountain" THEN NextPrevious(rec.prev, v) ELSE @,
                        !.emitted = @ + 1])]
  /\ UNCHANGED <<now, store, blockStore, sink, nextRun, initPos, initRun, planned, probe>>

\* a cursor that stops one interval short of the last one processed
NewLastTimestampShort(lastTimestamp, intervalsToProcess, s) ==
  lastTimestamp + (intervalsToProcess - 1) * interval(s)

\* a cursor that runs one interval past the last one processed
NewLastTimestampLong(lastTimestamp, intervalsToProcess, s) ==
  lastTimestamp + (intervalsToProcess + 1) * interval(s)

\* newLastTimestamp = lastTimestamp + intervalsToProcess * interval
NewLastTimestamp(lastTimestamp, intervalsToProcess, s) ==
  IF ToNumber(lastTimestamp) = NotANumber \/ intervalsToProcess = NotANumber
  THEN NotANumber
  ELSE ToNumber(lastTimestamp) + intervalsToProcess * interval(s)

-----------------------------------------------------------------------------
(* utils/blockTracker.js *)

\* ethena_last_block.json does not exist (or cannot be read)
NoFile == 0 - 5

\* INITIAL_BLOCK, on the model's chain: the latest block at the anchor
INITIAL_BLOCK == LatestBlock(StartTimestamp)

\* a tracker that reads one block less than the file holds
getLastProcessedBlockBehind(file) ==
  IF file \in {NoFile, Torn} THEN INITIAL_BLOCK ELSE file - 1

\* json.lastBlock; INITIAL_BLOCK when the file is not there or JSON.parse throws
getLastProcessedBlock(file) == IF file \in {NoFile, Torn} THEN INITIAL_BLOCK ELSE file

\* the file is rewritten as { lastBlock: blockNumber }
setLastProcessedBlock(file, blockNumber) == Json(blockNumber)

-----------------------------------------------------------------------------
(* scripts/ethena.js (the second half of src/scripts/spark.js) *)

\* The chain's logs of the event topic: one in every even block, of raw amount 5 with
\* totalAssets 20000 at that block (the README's 500 over 2 000 000); the log of every
\* fourth block has a raw amount of 0.
RewardLog(b) == b % 2 = 0
RewardAmount(b) == IF b % 4 = 0 THEN 0 ELSE 5
TotalAssets(b) == 20000

\* provider.getLogs({fromBlock, toBlock}), in block order
RECURSIVE getLogs(_, _)
getLogs(fromBlock, toBlock) ==
  IF fromBlock > toBlock THEN <<>>
  ELSE IF RewardLog(fromBlock) THEN <<fromBlock>> \o getLogs(fromBlock + 1, toBlock)
  ELSE getLogs(fromBlock + 1, toBlock)

\* an APY cut to two decimals instead of rounded
EthenaApyTruncated(dataNumber, totalAssets) ==
  (dataNumber * 3 * 365 * 100 * 100) \div totalAssets

\* eightHourApy.toFixed(2), in hundredths of a percent; totalAssets > 0
EthenaApy(dataNumber, totalAssets) == ToFixed2(dataNumber * 3 * 365 * 100, totalAssets)

\* the start of fetchEthenaApy: the cursor is read before the first await
EthenaStart(r) ==
  /\ LatestBlock(now) - getLastProcessedBlock(blockStore) <= MaxBlocks
  /\ run' = [run EXCEPT ![r] = [IdleRun EXCEPT !.src = "ethena",
                                               !.pc = "head", !.fresh = TRUE,
                                               !.last = getLastProcessedBlock(blockStore)]]

\* if (latestBlock <= lastBlock) return
NoNewBlocks(latestBlock, lastBlock) == latestBlock <= lastBlock

\* await provider.getBlockNumber() and the early return
EthenaHead(r) ==
  LET rec == run[r]
      used == [Did(rec, {"oracle"}) EXCEPT !.latest = LatestBlock(now)]
  IN
  /\ rec.pc = "head"
  /\ \/ run' = [run EXCEPT ![r] = Return(Did(rec, {"oracle", "rejected"}), "Aborted")]
     \/ run' = [run EXCEPT ![r] =
          IF NoNewBlocks(used.latest, rec.last) THEN Return(used, "SkippedNoWork")
          ELSE [used EXCEPT !.pc = "getLogs"]]
  /\ UNCHANGED <<now, store, blockStore, buffer, sink, nextRun, initPos, initRun, planned, probe>>

\* await provider.getLogs(logsFilter); with no log the cursor is set and the run returns
\* a run that found no log leaves the cursor where it was
NoLogsCursorKept(file, latestBlock) == file

\* if (logs.length === 0): the cursor is set to latestBlock all the same
NoLogsCursor(file, latestBlock) == setLastProcessedBlock(file, latestBlock)

EthenaLogs(r) ==
  LET rec == run[r]
      logs == getLogs(rec.last + 1, rec.latest)
  IN
  /\ rec.pc = "getLogs"
  /\ \/ /\ run' = [run EXCEPT ![r] = Return(Did(rec, {"rejected"}), "Aborted")]
        /\ UNCHANGED blockStore
     \/ /\ logs = <<>>
        /\ blockStore' = NoLogsCursor(blockStore, rec.latest)
        /\ run' = [run EXCEPT ![r] = Return(Did(rec, {"cursor"}), "Completed")]
     \/ /\ logs # <<>>
        /\ run' = [run EXCEPT ![r] = [rec EXCEPT !.pc = "logs", !.logs = logs]]
        /\ UNCHANGED blockStore
  /\ UNCHANGED <<now, store, buffer, sink, nextRun, initPos, initRun, planned, probe>>

\* a failed log ends the loop
NoLogAfterFailure(logs) == <<>>

\* catch (logError): the error is logged and the for loop takes the next log
AfterFailedLog(logs) == Tail(logs)

\* One pass of the for loop over the logs, inside its own try: a failure (the contract
\* read rejects, the block is not there) is logged and the loop goes on. After the last
\* log the cursor is set and then writeApi.flush() is called.
EthenaLog(r) ==
  LET rec == run[r]
      b == Head(rec.logs)
      wrote == [Did(rec, {"oracle", "write"}) EXCEPT !.logs = Tail(@),
                                                       !.hist = Append(@, b),
                                                       !.emitted = @ + 1]
      failed == [Did(rec, {"oracle"}) EXCEPT !.logs = AfterFailedLog(@),
                                             !.hist = Append(@, NoReading)]
      done(x) == IF x.logs = <<>> THEN [Did(x, {"cursor"}) EXCEPT !.pc = "flush"] ELSE x
  IN
  /\ rec.pc = "logs"
  /\ \/ \* the block of the log is not there, or the point cannot be built
        /\ run' = [run EXCEPT ![r] = done(failed)]
        /\ UNCHANGED buffer
     \/ \* contract.totalAssets or provider.getBlock rejects
        /\ run' = [run EXCEPT ![r] = done(Did(failed, {"rejected"}))]
        /\ UNCHANGED buffer
     \/ /\ buffer' = [buffer EXCEPT !["ethena"] = @ \cup
              {Point("ethena", BlockTimestamp(b),
                     EthenaApy(RewardAmount(b), TotalAssets(b)), r)}]
        /\ run' = [run EXCEPT ![r] = done(wrote)]
  /\ blockStore' = IF run'[r].logs = <<>>
                   THEN setLastProcessedBlock(blockStore, rec.latest)
                   ELSE blockStore
  /\ UNCHANGED <<now, store, sink, nextRun, initPos, initRun, planned, probe>>

-----------------------------------------------------------------------------
(* scripts/morpho.js *)

\* Object.entries(VAULTS)
VAULTS == <<"USDC", "USDT">>

\* The aggregator's daily series of a vault: a point at the anchor and one every 24
\* hours after it; the query returns the points from startTimestamp on (inclusive).
SeriesFrom(startTimestamp, t) ==
  {x \in {StartTimestamp + k * (24 * 3600) : k \in 0..MaxTicks} :
     x >= startTimestamp /\ x <= t}

\* dataPoint.y of the newest point of a series, in thousandths: 0.045, 0, or null (the
\* day is not computed yet); the older points have 0.045
MorphoReadings == {45, 0, NoReading}

\* parseFloat(dataPoint.y) * 100 after toFixed(2), in hundredths, for y in thousandths
MorphoApy(y) == ToFixed2(y * 100, 1000)

Max(S) == CHOOSE x \in S : \A y \in S : y <= x
Min(S) == CHOOSE x \in S : \A y \in S : x <= y

\* apyData[0].x of a series returned newest first ("desc") or oldest first ("asc")
FirstX(apyData, order) == IF order = "desc" THEN Max(apyData) ELSE Min(apyData)

\* The head of a pass over VAULTS: the vault's cursor is read and the query is
\* awaited; after the last vault the function returns.
MorphoVault(rec, file, v) ==
  IF v > Len(VAULTS) THEN Return(rec, "Completed")
  ELSE [rec EXCEPT !.pc = "query", !.vault = v,
                   !.last = getLastFetchedTimestamp(file, VAULTS[v])]

MorphoStart(r) ==
  run' = [run EXCEPT ![r] =
            MorphoVault([IdleRun EXCEPT !.src = "morpho", !.fresh = TRUE], store, 1)]

\* The points of apyData that forEach has handed to writePoint when it reaches the
\* newest one, in the order of the series
BeforeNewest(apyData, order) ==
  IF order = "desc" THEN {} ELSE apyData \ {Max(apyData)}

\* await apolloClient.query(...); the points are written and flush() is called. A y
\* that is null makes parseFloat give NaN, Point.floatField throws on it, and the throw
\* leaves forEach and the vault loop for the outer catch.
MorphoQuery(r) ==
  LET rec == run[r]
      apyData == SeriesFrom(rec.last, now)
      used == Did(rec, {"aggregator"})
      y(x, newest) == IF x = Max(apyData) THEN newest ELSE 45
  IN
  /\ rec.pc = "query"
  /\ \/ /\ run' = [run EXCEPT ![r] = Return(used, "Aborted")]
        /\ UNCHANGED buffer
     \/ \* no data for the vault: continue
        /\ run' = [run EXCEPT ![r] = MorphoVault(used, store, rec.vault + 1)]
        /\ UNCHANGED buffer
     \/ /\ apyData # {}
        /\ \E order \in {"asc", "desc"}, newest \in MorphoReadings :
             IF newest = NoReading
             THEN /\ run' = [run EXCEPT ![r] =
                       Return(Did(used, {"threw"} \cup
                                        IF BeforeNewest(apyData, order) = {} THEN {}
                                        ELSE {"write"}),
                              "Aborted")]
                  /\ buffer' = [buffer EXCEPT !["morpho"] = @ \cup
                       {Point(VAULTS[rec.vault], x, MorphoApy(45), r) :
                          x \in BeforeNewest(apyData, order)}]
             ELSE /\ run' = [run EXCEPT ![r] =
                       [Did(used, {"write", VAULTS[rec.vault]}) EXCEPT
                          !.pc = "flush",
                          !.latest = FirstX(apyData, order),
                          !.emitted = @ + Cardinality(apyData)]]
                  /\ buffer' = [buffer EXCEPT !["morpho"] = @ \cup
                       {Point(VAULTS[rec.vault], x, MorphoApy(y(x, newest)), r) :
                          x \in apyData}]
  /\ UNCHANGED <<now, store, blockStore, sink, nextRun, initPos, initRun, planned, probe>>

-----------------------------------------------------------------------------
(* The sink and the cursor advance *)

\* await writeApi.flush(): the points in the module's buffer are committed together,
\* or the flush rejects and the outer catch ends the run. What a rejected flush leaves
\* in the client's buffer is the client's choice: both outcomes are modelled.
Flush(r) ==
  LET rec == run[r]
      s == rec.src
  IN
  /\ rec.pc = "flush"
  /\ \/ /\ sink' = sink \cup buffer[s]
        /\ buffer' = [buffer EXCEPT ![s] = {}]
        /\ run' = [run EXCEPT ![r] =
             IF s = "ethena" THEN Return(Did(rec, {"flush", "committed"}), "Completed")
             ELSE [Did(rec, {"flush", "committed"}) EXCEPT !.pc = "advance"]]
     \/ /\ run' = [run EXCEPT ![r] = Return(Did(rec, {"flush"}), "Aborted")]
        /\ \/ UNCHANGED buffer
           \/ /\ buffer[s] # {}
              /\ buffer' = [buffer EXCEPT ![s] = {}]
        /\ UNCHANGED sink
  /\ UNCHANGED <<now, store, blockStore, nextRun, initPos, initRun, planned, probe>>

\* currentTimestamp of every pass of a run's loop, in order
Targets(rec) == [k \in 1..rec.N |-> rec.last + k * interval(rec.src)]

\* The code after the awaited flush: setLastFetchedTimestamp(protocol, newLastTimestamp)
\* in mountain and spark; setLastFetchedTimestamp(vaultKey, apyData[0].x) and the next
\* vault in morpho.
AdvanceCursor(r) ==
  LET rec == run[r]
      done == Did(rec, {"cursor"})
  IN
  /\ rec.pc = "advance"
  /\ IF rec.src = "morpho"
     THEN /\ store' = setLastFetchedTimestamp(store, VAULTS[rec.vault], rec.latest)
          /\ run' = [run EXCEPT ![r] = MorphoVault(done, store', rec.vault + 1)]
     ELSE /\ store' = setLastFetchedTimestamp(store, rec.src,
                                              NewLastTimestamp(rec.last, rec.N, rec.src))
          /\ run' = [run EXCEPT ![r] = Return(done, "Completed")]
  /\ planned' = IF rec.src = "morpho" THEN planned
                ELSE [planned EXCEPT ![rec.src] = @ \o Targets(rec)]
  /\ UNCHANGED <<now, blockStore, buffer, sink, nextRun, initPos, initRun, probe>>

-----------------------------------------------------------------------------
(* app.js *)

\* the fetch function of source s starts as run r and runs to its first await
Begin(r, s) ==
  /\ CASE s \in TimestampSources -> Plan(r, s)
       [] s = "ethena" -> EthenaStart(r)
       [] s = "morpho" -> MorphoStart(r)
  /\ UNCHANGED <<now, store, blockStore, buffer, sink, planned, probe>>

\* A cron.schedule callback fires. node-cron calls it whether or not an earlier call
\* of it, or the initial fetch of the same source, is still awaiting.
StartCron(s) ==
  /\ nextRun <= MaxRuns
  /\ Begin(nextRun, s)
  /\ nextRun' = nextRun + 1
  /\ UNCHANGED <<initPos, initRun>>

\* the order of the awaits of the initial data collection
InitialOrder == <<"ethena", "morpho", "spark", "mountain">>

\* the initial data collection: the next fetch starts when the awaited one has returned
StartInitial ==
  /\ initPos < Len(InitialOrder)
  /\ IF initRun = 0 THEN TRUE ELSE run[initRun].pc \in Terminal
  /\ nextRun <= MaxRuns
  /\ Begin(nextRun, InitialOrder[initPos + 1])
  /\ nextRun' = nextRun + 1
  /\ initPos' = initPos + 1
  /\ initRun' = nextRun

\* The process ends and is started again (npm start): the runs in flight die where
\* they await, the write buffers are lost with the memory, the files and the sink
\* stay, and app.js runs its initial data collection again.
Restart ==
  /\ \E r \in RunIds : InFlight(r)
  /\ run' = [r \in RunIds |-> IF InFlight(r) THEN Return(run[r], "Killed") ELSE run[r]]
  /\ buffer' = [s \in Sources |-> {}]
  /\ initPos' = 0
  /\ initRun' = 0
  /\ UNCHANGED <<now, store, blockStore, sink, nextRun, planned, probe>>

Step(r) ==
  \/ MountainSeed(r)
  \/ Interval(r)
  \/ EthenaHead(r)
  \/ EthenaLogs(r)
  \/ EthenaLog(r)
  \/ MorphoQuery(r)
  \/ Flush(r)
  \/ AdvanceCursor(r)

Next ==
  \/ Tick
  \/ StartInitial
  \/ \E s \in Sources : StartCron(s)
  \/ \E r \in RunIds : Step(r)
  \/ Restart

Spec == Init /\ [][Next]_vars

\* The same program when the triggers of one source never overlap: a fetch function
\* starts only when no run of its source is in flight.
NoRunOf(s) == \A r \in RunIds : InFlight(r) => run[r].src # s

StartCronSeq(s) == NoRunOf(s) /\ StartCron(s)

StartInitialSeq ==
  /\ initPos < Len(InitialOrder)
  /\ NoRunOf(InitialOrder[initPos + 1])
  /\ StartInitial

NextSeq ==
  \/ Tick
  \/ StartInitialSeq
  \/ \E s \in Sources : StartCronSeq(s)
  \/ \E r \in RunIds : Step(r)
  \/ Restart

SpecSeq == Init /\ [][NextSeq]_vars

\* an initial fetch that goes on only after a fetch that completed
ResolvedCompleted(rec) == rec.pc = "Completed"

\* await fetchXApy(): every fetch function catches what it throws, so the promise
\* resolves whenever the function has returned
Resolved(rec) == rec.pc \in Terminal

\* The initial data collection on its own, with no cron trigger. Only one of its runs
\* is in flight at a time; the record of a run that returned is given to the run
\* after the next.
InitialFetch ==
  LET r == (initPos % MaxRuns) + 1 IN
  /\ initPos < Len(InitialOrder)
  /\ IF initRun = 0 THEN TRUE ELSE Resolved(run[initRun])
  /\ Begin(r, InitialOrder[initPos + 1])
  /\ initPos' = initPos + 1
  /\ initRun' = r
  /\ UNCHANGED nextRun

NextInitial ==
  \/ Tick
  \/ InitialFetch
  \/ \E r \in RunIds : Step(r)

SpecInitial == Init /\ [][NextInitial]_vars

\* The process stays up and every awaited call (oracle, aggregator, sink) returns or
\* rejects in the end: the continuation of every run in flight is run.
NextLive ==
  \/ Tick
  \/ StartInitialSeq
  \/ \E s \in Sources : StartCronSeq(s)
  \/ \E r \in RunIds : Step(r)

Fairness == \A r \in RunIds : WF_vars(Step(r))

SpecLive == Init /\ [][NextLive]_vars /\ Fairness

\* mountain and spark on their own, their cron callbacks never overlapping
StepTs(r) ==
  \/ MountainSeed(r)
  \/ Interval(r)
  \/ Flush(r)
  \/ AdvanceCursor(r)

NextTsSeq ==
  \/ Tick
  \/ \E s \in TimestampSources : StartCronSeq(s)
  \/ \E r \in RunIds : StepTs(r)
  \/ Restart

SpecTsSeq == Init /\ [][NextTsSeq]_vars

\* mountain on a chain that does not change: rewardMultiplier at the block of the
\* anchor + k days is probe.multiplier[k] whenever it is read, by whichever run
Days == (MaxTicks * TickSeconds) \div interval("mountain")

InitSplit ==
  /\ InitProgram
  /\ \E c \in [0..Days -> MultiplierReadings] : probe = [pc |-> "chain", multiplier |-> c]

\* what run r has read so far is what the chain holds at the blocks it asked for; a
\* read that failed gave nothing
ChainReads(r) ==
  LET rec == run'[r]
      first == (rec.last - StartTimestamp) \div interval("mountain")
  IN (rec.src = "mountain" /\ rec.pc \notin Terminal)
       => \A k \in 1..Len(rec.hist) :
            rec.hist[k] \in {probe.multiplier[first + k - 1], NoReading}

StepSplit(r) == StepTs(r) /\ ChainReads(r)

NextSplit ==
  \/ Tick
  \/ StartCronSeq("mountain")
  \/ \E r \in RunIds : StepSplit(r)

SpecSplit == InitSplit /\ [][NextSplit]_vars

-----------------------------------------------------------------------------
(* A crash inside a set of a cursor *)

\* the next step of run r calls setLastFetchedTimestamp
SetsTimestamp(r) == run[r].pc = "advance"

\* the next step of run r calls setLastProcessedBlock
SetsBlock(r) ==
  \/ run[r].pc = "getLogs" /\ getLogs(run[r].last + 1, run[r].latest) = <<>>
  \/ run[r].pc = "logs" /\ Len(run[r].logs) = 1

\* The process dies inside fs.writeFileSync, which has emptied the file and has not
\* written all of the new text: the file is torn. The process is started again. (A
\* death before or after the write is a Restart before or after the step.)
CrashInSet ==
  /\ \E r \in RunIds :
       \/ /\ SetsTimestamp(r)
          /\ store' = [k \in TimestampKeys |-> Torn]
          /\ UNCHANGED blockStore
       \/ /\ SetsBlock(r)
          /\ blockStore' = Torn
          /\ UNCHANGED store
  /\ run' = [r \in RunIds |-> IF InFlight(r) THEN Return(run[r], "Killed") ELSE run[r]]
  /\ buffer' = [s \in Sources |-> {}]
  /\ initPos' = 0
  /\ initRun' = 0
  /\ UNCHANGED <<now, sink, nextRun, planned, probe>>

NextCrash ==
  \/ Tick
  \/ StartInitialSeq
  \/ \E s \in Sources : StartCronSeq(s)
  \/ \E r \in RunIds : Step(r)
  \/ Restart
  \/ CrashInSet

SpecCrash == Init /\ [][NextCrash]_vars

-----------------------------------------------------------------------------
(* The program started with the cursor of one source never stored:
   last_timestamp.json lacks the key of mountain or of spark or the keys of morpho,
   or ethena_last_block.json does not exist. The cron callbacks of a source do not
   overlap. *)

\* the keys of last_timestamp.json that source s reads
KeysOf(s) == IF s = "morpho" THEN {"USDC", "USDT"} ELSE {s} \cap TimestampKeys

InitAbsent ==
  /\ InitProcess
  /\ \E absent \in Sources :
       /\ store = [k \in TimestampKeys |->
                     IF k \in KeysOf(absent) THEN Undefined ELSE StartTimestamp]
       /\ blockStore = IF absent = "ethena" THEN NoFile ELSE INITIAL_BLOCK
  /\ probe = [pc |-> "off"]

NextAbsent ==
  \/ Tick
  \/ \E s \in Sources : StartCronSeq(s)
  \/ \E r \in RunIds : Step(r)

SpecAbsent == InitAbsent /\ [][NextAbsent]_vars

-----------------------------------------------------------------------------
(* getBlockNumberByTimestamp on its own: one call on an oracle drawn from the
   block -> timestamp functions of at most MaxHeight + 1 blocks with timestamps in
   1..MaxStamp. The provider answers getBlock(b) with null for the blocks outside
   avail. *)

MaxHeight == 3
MaxStamp == 6

Chains == UNION {[0..h -> 1..MaxStamp] : h \in 0..MaxHeight}

Height(ts) == Cardinality(DOMAIN ts) - 1

InitResolver ==
  /\ InitProgram
  /\ \E ts \in Chains :
       \E avail \in SUBSET (DOMAIN ts) :
         \E target \in 0..(MaxStamp + 1) :
           probe = [pc |-> "ready", ts |-> ts, avail |-> avail, target |-> target,
                    result |-> 0, probes |-> <<>>, ranges |-> <<>>]

\* const latestBlock = await provider.getBlockNumber(), then the search
Resolve ==
  /\ probe.pc = "ready"
  /\ probe' = [probe EXCEPT !.pc = "done",
                 !.result = getBlockNumberByTimestamp(probe.ts, probe.avail,
                                                      Height(probe.ts), probe.target),
                 !.probes = Probes(probe.ts, probe.avail, probe.target,
                                   0, Height(probe.ts)),
                 !.ranges = Ranges(probe.ts, probe.avail, probe.target,
                                   0, Height(probe.ts))]
  /\ UNCHANGED <<now, store, blockStore, buffer, sink, run, nextRun, initPos, initRun,
                 planned>>

NextResolver == Resolve

SpecResolver == InitResolver /\ [][NextResolver]_vars

-----------------------------------------------------------------------------
(* The claims *)

TimestampRun(r) == run[r].src \in TimestampSources

\* C1: in every run of every source, the source's checkpoint is written only after
\* the flush of that run has returned successfully: a run that has written its
\* cursor and has reached its flush has had that flush succeed.
C1_CursorAfterFlush ==
  \A r \in RunIds :
    ("cursor" \in run[r].effects /\ (run[r].pc = "flush" \/ "flush" \in run[r].effects))
      => "committed" \in run[r].effects

\* C2: a mountain or spark run plans N = floor((now - last) / interval) from the
\* checkpoint last it reads at its start, keeps both to its end, and reaches
\* Completed only by setting the checkpoint to last + N * interval, which is
\* greater than last, whatever happened in the N intervals.
C2_AdvanceByPlan ==
  [][\A r \in RunIds :
       LET rec == run[r]
           after == run'[r]
           s == after.src
       IN
       /\ (rec.pc = "idle" /\ after.pc \in {"seed", "loop"})
            => /\ after.last = store[s]
               /\ after.N * interval(s) <= now - after.last
               /\ now - after.last < (after.N + 1) * interval(s)
       /\ (rec.pc \in {"seed", "loop", "flush", "advance"} /\ after.pc \notin Terminal
             /\ rec.src \in TimestampSources)
            => after.N = rec.N /\ after.last = rec.last
       /\ (rec.pc # "Completed" /\ after.pc = "Completed" /\ s \in TimestampSources)
            => /\ rec.pc = "advance"
               /\ rec.N >= 1
               /\ store'[s] = rec.last + rec.N * interval(s)
               /\ store'[s] > rec.last
    ]_vars

\* a mountain or spark run is Completed, its checkpoint is ahead by two intervals or
\* more, and it has written no point: every interval it planned was skipped
C2_AllSkippedCompleted ==
  \E r \in RunIds :
    /\ TimestampRun(r)
    /\ run[r].pc = "Completed"
    /\ "write" \notin run[r].effects
    /\ planned[run[r].src] # <<>>
    /\ store[run[r].src] >= StartTimestamp + 2 * interval(run[r].src)

\* the call of the resolver has returned, on a chain of strictly increasing timestamps
\* whose blocks can all be fetched
ResolvedOnGoodChain ==
  /\ probe.pc = "done"
  /\ probe.avail = DOMAIN probe.ts
  /\ \A b \in DOMAIN probe.ts : b + 1 \in DOMAIN probe.ts => probe.ts[b] < probe.ts[b + 1]

\* C3: on a strictly monotone oracle with every block available,
\* getBlockNumberByTimestamp(t) returns the block b with ts(b) <= t < ts(b + 1); block 0
\* when t is before block 0; the latest block when t is at or after its timestamp.
C3_ResolverCorrect ==
  ResolvedOnGoodChain =>
    LET ts == probe.ts
        t == probe.target
        b == probe.result
        latestBlock == Height(ts)
    IN IF t < ts[0] THEN b = 0
       ELSE IF t >= ts[latestBlock] THEN b = latestBlock
       ELSE b \in 0..(latestBlock - 1) /\ ts[b] <= t /\ t < ts[b + 1]

\* the resolver has answered an inner block for a target that lies strictly between
\* the timestamps of two blocks of a chain of four
C3_InnerBlockResolved ==
  /\ ResolvedOnGoodChain
  /\ Height(probe.ts) = MaxHeight
  /\ probe.result \in 1..(MaxHeight - 1)
  /\ probe.ts[probe.result] < probe.target
  /\ probe.target < probe.ts[probe.result + 1]

\* C4: a run that starts, with the clock unchanged, after a run of the same source has
\* returned Completed or SkippedNoWork (for morpho: with data for both vaults) writes
\* nothing, flushes nothing, leaves the cursor alone and does not reach Completed.
C4_SecondRunSkips ==
  \A r1, r2 \in RunIds :
    (/\ r1 < r2
     /\ run[r1].src = run[r2].src
     /\ run[r1].pc \in {"Completed", "SkippedNoWork"}
     /\ run[r1].src = "morpho" => {"USDC", "USDT"} \subseteq run[r1].effects
     /\ run[r1].fresh
     /\ run[r2].fresh)
      => /\ run[r2].effects \cap {"write", "flush", "cursor"} = {}
         /\ run[r2].pc # "Completed"

\* C5: a mountain or spark run that finds less than one whole interval between its
\* checkpoint and now returns SkippedNoWork at once: no oracle call, no write, no
\* flush, no cursor write.
C5_NoWorkNoEffect ==
  [][\A r \in RunIds :
       (/\ run[r].pc = "idle"
        /\ run'[r].pc # "idle"
        /\ run'[r].src \in TimestampSources
        /\ now - store[run'[r].src] < interval(run'[r].src))
         => /\ run'[r].pc = "SkippedNoWork"
            /\ run'[r].effects = {}
            /\ UNCHANGED <<store, blockStore, buffer, sink, planned>>
    ]_vars

\* a mountain run has returned SkippedNoWork with the clock half an interval past the
\* checkpoint
C5_SkippedWithinInterval ==
  \E r \in RunIds :
    /\ run[r].src = "mountain"
    /\ run[r].pc = "SkippedNoWork"
    /\ run[r].fresh
    /\ now > store["mountain"]
    /\ run[r].effects = {}

\* a reading that passes the empty-data and zero checks
Valid(v) == v > 0

\* The multiplier the interval after hist[1..n] is compared with: the reading of the
\* most recent interval that read a valid multiplier, the seed hist[1] when none did.
Prior(hist, n) ==
  LET emitting == {j \in 2..n : Valid(hist[j])}
  IN IF emitting = {} THEN hist[1]
     ELSE hist[CHOOSE j \in emitting : \A k \in emitting : k <= j]

\* C6: in a mountain run, previousMultiplier is the reading of the most recent interval
\* that emitted a sample (the seed before any did), and every sample of the run is the
\* change of its interval's reading against that multiplier: skipped intervals leave
\* it alone.
C6_PreviousFromEmitting ==
  \A r \in RunIds :
    LET rec == run[r] IN
    (rec.src = "mountain" /\ rec.pc \in {"loop", "flush", "advance"})
      => /\ rec.prev = Prior(rec.hist, Len(rec.hist))
         /\ \A p \in buffer["mountain"] \cup sink :
              (p.protocol = "mountain" /\ p.run = r)
                => LET k == (p.ts - rec.last) \div interval("mountain")
                   IN /\ p.ts = rec.last + k * interval("mountain")
                      /\ k \in 1..(Len(rec.hist) - 1)
                      /\ Valid(rec.hist[k + 1])
                      /\ p.apy = MountainApy(rec.hist[k + 1], Prior(rec.hist, k))

\* a mountain run has read [valid, zero, valid] (the seed, then two intervals) and its
\* sample for the second interval is 1047 against the seed 1000: 4.7 percent
C6_ZeroBetweenValid ==
  \E r \in RunIds :
    /\ run[r].src = "mountain"
    /\ run[r].hist = <<1000, 0, 1047>>
    /\ Point("mountain", run[r].last + 2 * interval("mountain"), 470, r)
         \in buffer["mountain"]

\* C7: the checkpoint of every source key never decreases, in any interleaving of the
\* runs app.js can start.
C7_CheckpointMonotone ==
  [][/\ \A k \in TimestampKeys : store'[k] >= store[k]
     /\ blockStore' >= blockStore]_vars

\* C8: at most one run of a source is in flight at any time.
C8_OneRunPerSource ==
  \A r1, r2 \in RunIds :
    (InFlight(r1) /\ InFlight(r2) /\ run[r1].src = run[r2].src) => r1 = r2

\* C9: when the runs of a source never overlap, the targets of the Completed runs of
\* mountain and of spark are, in order, genesis + k * interval for k = 1, 2, ...: no
\* target twice, none left out, whatever runs aborted or died in between.
C9_ConsecutiveTargets ==
  \A s \in TimestampSources :
    \A k \in 1..Len(planned[s]) : planned[s][k] = StartTimestamp + k * interval(s)

\* two runs of spark have Completed, one after the other
C9_TwoCompletedRuns ==
  \E r1, r2 \in RunIds :
    /\ r1 < r2
    /\ run[r1].src = "spark" /\ run[r1].pc = "Completed"
    /\ run[r2].src = "spark" /\ run[r2].pc = "Completed"
    /\ Len(planned["spark"]) >= 2

\* C10: the points a run buffered before it aborted are never committed: a committed
\* point of an Aborted run was committed by that run's own flush.
C10_AbortedNeverCommitted ==
  \A p \in sink : run[p.run].pc = "Aborted" => "committed" \in run[p.run].effects

\* C11 as stated: on every oracle, with or without unavailable blocks, the block
\* returned by getBlockNumberByTimestamp has a timestamp at or before the target.
C11_NeverAfterTarget ==
  probe.pc = "done" => probe.ts[probe.result] <= probe.target

\* C11, amended: the only block after the target that getBlockNumberByTimestamp
\* returns is block 0, the candidate it starts with; every other block it returns has
\* a timestamp at or before the target.
C11_AfterTargetOnlyBlockZero ==
  probe.pc = "done" =>
    (probe.ts[probe.result] > probe.target => probe.result = 0)

\* the search has stopped at a block that cannot be fetched and has answered a block
\* above 0 whose timestamp is before the target
C11_StoppedWithCandidate ==
  /\ probe.pc = "done"
  /\ probe.avail # DOMAIN probe.ts
  /\ probe.result >= 1
  /\ probe.ts[probe.result] < probe.target
  /\ \E k \in 1..Len(probe.probes) : probe.probes[k] \notin probe.avail

\* C12: a run that starts on a cursor that was never stored reads the documented
\* genesis value (the anchor for the timestamp keys, INITIAL_BLOCK for ethena), and no
\* run stores a checkpoint that is not an integer.
C12_AbsentReadsGenesis ==
  [][/\ \A r \in RunIds :
          (run[r].pc = "idle" /\ run'[r].pc \notin Terminal \cup {"idle"})
            => LET s == run'[r].src IN
               /\ (s \in TimestampSources /\ store[s] = Undefined)
                    => run'[r].last = StartTimestamp
               /\ (s = "morpho" /\ store[VAULTS[1]] = Undefined)
                    => run'[r].last = StartTimestamp
               /\ (s = "ethena" /\ blockStore = NoFile)
                    => run'[r].last = INITIAL_BLOCK
     /\ \A k \in TimestampKeys : store'[k] # store[k] => store'[k] > 0
     /\ blockStore' # blockStore => blockStore' > 0
    ]_vars

\* C13: whatever happens to the process during a set, a get of every key afterwards
\* returns the value it returned before or the value a run was setting: every step
\* leaves each cursor as it reads, or at the value the run that writes it set.
C13_OldOrNewAfterCrash ==
  [][/\ \A k \in TimestampKeys :
          \/ getLastFetchedTimestamp(store', k) = getLastFetchedTimestamp(store, k)
          \/ \E r \in RunIds :
               /\ SetsTimestamp(r)
               /\ store' = setLastFetchedTimestamp(store, k,
                                                   getLastFetchedTimestamp(store', k))
     /\ \/ getLastProcessedBlock(blockStore') = getLastProcessedBlock(blockStore)
        \/ \E r \in RunIds :
             SetsBlock(r) /\ getLastProcessedBlock(blockStore') = run[r].latest
    ]_vars

\* the key of last_timestamp.json that run r writes
KeyOf(r) == IF run[r].src = "morpho" THEN VAULTS[run[r].vault] ELSE run[r].src

\* C14: a step that changes a key of the shared timestamp file is the set of a run
\* of that key's source, and it leaves every other key as it was: in no interleaving
\* of the runs is the update of one source lost to, or overwritten by, another's.
C14_SetChangesOnlyItsKey ==
  [][\A k \in TimestampKeys :
       store'[k] # store[k]
         => /\ \E r \in RunIds :
                 run[r].pc = "advance" /\ KeyOf(r) = k /\ run'[r] # run[r]
            /\ \A k2 \in TimestampKeys \ {k} : store'[k2] = store[k2]
    ]_vars

\* a mountain run and a spark run have both Completed, each has set its cursor, and
\* both keys are ahead of the anchor
C14_BothUpdatesKept ==
  \E r1, r2 \in RunIds :
    /\ run[r1].src = "mountain" /\ run[r1].pc = "Completed"
    /\ run[r2].src = "spark" /\ run[r2].pc = "Completed"
    /\ "cursor" \in run[r1].effects /\ "cursor" \in run[r2].effects
    /\ store["mountain"] > StartTimestamp
    /\ store["spark"] > StartTimestamp

\* C15: in every variant a raw value that is zero, empty or unparseable emits no
\* sample and is not fatal. The sample of a zero raw value of ethena or morpho is the
\* one with APY 0, and a run that a bad value ended has "threw" among its effects.
C15_BadValueSkipped ==
  /\ \A s \in {"ethena", "morpho"} : \A p \in buffer[s] \cup sink :
       p.protocol \in {"ethena", "USDC", "USDT"} => p.apy # 0
  /\ \A r \in RunIds : "threw" \notin run[r].effects

\* C16: when a morpho run sets the cursor of a vault, after the flush of the series it
\* received for it, the cursor is the greatest timestamp among the points of that
\* series, whatever the order the series came in.
C16_CursorIsGreatestX ==
  [][\A r \in RunIds :
       (/\ run[r].src = "morpho"
        /\ run[r].pc = "advance"
        /\ run'[r].pc \notin {"advance", "Killed"})
         => LET k == VAULTS[run[r].vault]
                xs == {p.ts : p \in {q \in sink : q.run = r /\ q.protocol = k}}
            IN /\ store'[k] \in xs
               /\ \A x \in xs : x <= store'[k]
    ]_vars

\* C17: a run in which a call of the chain oracle has failed (the lookup of the
\* latest block, a block fetch, the log query or a contract read) does not complete
\* and does not write its cursor: it ends Aborted on the cursor it started from.
C17_OracleFailureAborts ==
  \A r \in RunIds :
    "rejected" \in run[r].effects
      => run[r].pc # "Completed" /\ "cursor" \notin run[r].effects

\* C18: when a block that getBlockNumberByTimestamp probes cannot be fetched, the
\* search answers all the same: that probe is its last one, and the answer is the
\* candidate it holds then: the latest earlier probe whose timestamp it saw strictly
\* before the target, or 0 when it saw none.
C18_UnavailableStopsWithBest ==
  probe.pc = "done" =>
    \A k \in 1..Len(probe.probes) :
      probe.probes[k] \notin probe.avail
        => LET lower == {j \in 1..(k - 1) : probe.ts[probe.probes[j]] < probe.target}
           IN /\ k = Len(probe.probes)
              /\ \A j \in 1..(k - 1) : probe.probes[j] \in probe.avail
              /\ probe.result \in DOMAIN probe.ts
              /\ probe.result = IF lower = {} THEN 0 ELSE probe.probes[Max(lower)]

\* the third probe of a search met a block that cannot be fetched, after two probes
\* that each gave a candidate
C18_ThirdProbeUnavailable ==
  /\ probe.pc = "done"
  /\ Len(probe.probes) = 3
  /\ probe.probes[3] \notin probe.avail
  /\ probe.result = probe.probes[2]
  /\ probe.ts[probe.probes[1]] < probe.target

\* the ethena points written so far, flushed or not
EthenaPoints == {p \in buffer["ethena"] \cup sink : p.protocol = "ethena"}

\* the APY of a point times the total base, and the exact value a * 3 * 365 * 100
\* of its event, both in hundredths of a percent
StoredTimesBase(p) == p.apy * TotalAssets(LatestBlock(p.ts))
ExactTimesBase(p) == RewardAmount(LatestBlock(p.ts)) * 3 * 365 * 100 * 100

C20_NoLogsAdvancesCursor ==
  [][\A r \in RunIds :
       (/\ run[r].src = "ethena"
        /\ run[r].pc = "getLogs"
        /\ run[r].latest > run[r].last
        /\ getLogs(run[r].last + 1, run[r].latest) = <<>>
        /\ run'[r].pc \notin {"getLogs", "Aborted", "Killed"})
         => /\ run'[r].pc = "Completed"
            /\ blockStore' = run[r].latest
            /\ buffer' = buffer
            /\ sink' = sink
            /\ run'[r].emitted = 0
            /\ run'[r].effects \cap {"write", "flush", "committed"} = {}
    ]_vars

\* an ethena run has just completed without a flush, on a range of new blocks that
\* held no log, and the cursor is at the latest block
C20_EmptyRangeCompleted ==
  \E r \in RunIds :
    /\ run[r].src = "ethena"
    /\ run[r].pc = "Completed"
    /\ run[r].fresh
    /\ "cursor" \in run[r].effects
    /\ "flush" \notin run[r].effects
    /\ blockStore = LatestBlock(now)
    /\ blockStore > INITIAL_BLOCK

\* the points that run r has in the write buffer of ethena
EthenaBuffered(r) == {p \in buffer["ethena"] : p.run = r}

\* C21: when the loop over a non-empty list of logs is over, every log has been
\* passed, whichever of them failed; a log that failed has no point, every other log
\* has its point, and the block cursor has been set to latestBlock.
C21_FailedLogsSkipped ==
  \A r \in RunIds :
    (run[r].src = "ethena" /\ run[r].pc = "flush")
      => LET logs == getLogs(run[r].last + 1, run[r].latest)
             hist == run[r].hist
         IN /\ logs # <<>>
            /\ Len(hist) = Len(logs)
            /\ \A k \in 1..Len(logs) : hist[k] \in {logs[k], NoReading}
            /\ {p.ts : p \in EthenaBuffered(r)}
                 = {BlockTimestamp(hist[k]) : k \in {j \in 1..Len(hist) : hist[j] # NoReading}}
            /\ run[r].emitted = Cardinality(EthenaBuffered(r))
            /\ "cursor" \in run[r].effects
            /\ blockStore = run[r].latest

\* a run has passed two logs, the first failed and the second written, and has set
\* the cursor
C21_FirstOfTwoFailed ==
  \E r \in RunIds :
    /\ run[r].src = "ethena"
    /\ run[r].pc = "flush"
    /\ Len(run[r].hist) = 2
    /\ run[r].hist[1] = NoReading
    /\ run[r].hist[2] # NoReading
    /\ Cardinality(EthenaBuffered(r)) = 1
    /\ blockStore = run[r].latest

\* the outcomes of a run whose function returned
Outcomes == {"Completed", "SkippedNoWork", "Aborted"}

\* C22: every run in flight ends in one of Completed, SkippedNoWork and Aborted, and
\* stays there. A run becomes SkippedNoWork only at its plan (the early return of
\* mountain and spark, the comparison of the blocks of ethena), before it has written
\* anything, and Completed only when its loop is over: all N intervals passed
\* (mountain, spark), no log left (ethena).
C22_RunsTerminate ==
  /\ \A r \in RunIds : InFlight(r) ~> run[r].pc \in Outcomes
  /\ [][\A r \in RunIds :
          /\ run[r].pc \in Outcomes => run'[r] = [run[r] EXCEPT !.fresh = run'[r].fresh]
          /\ (run[r].pc # "SkippedNoWork" /\ run'[r].pc = "SkippedNoWork")
               => /\ run[r].pc \in {"idle", "head"}
                  /\ run'[r].effects \subseteq {"oracle"}
          /\ (run[r].pc # "Completed" /\ run'[r].pc = "Completed")
               => /\ run[r].src \in TimestampSources
                       => run[r].pc = "advance" /\ run[r].i = run[r].N + 1
                  /\ run[r].src = "ethena"
                       => \/ run[r].pc = "flush" /\ run[r].logs = <<>>
                          \/ /\ run[r].pc = "getLogs"
                             /\ getLogs(run[r].last + 1, run[r].latest) = <<>>
     ]_vars

\* one run has completed after it wrote points and another has been skipped at its plan
C22_CompletedAndSkipped ==
  \E r1, r2 \in RunIds :
    /\ run[r1].pc = "Completed"
    /\ {"write", "committed", "cursor"} \subseteq run[r1].effects
    /\ run[r1].src \in TimestampSources
    /\ run[r2].pc = "SkippedNoWork"

\* floor(log2(n)), n >= 1
RECURSIVE FloorLog2(_)
FloorLog2(n) == IF n <= 1 THEN 0 ELSE 1 + FloorLog2(n \div 2)

\* C23: a call of getBlockNumberByTimestamp on a chain of height B returns; every pass
\* of its loop probes the middle of the range and leaves a range inside the one
\* before and strictly shorter; it probes at most floor(log2(B + 1)) + 1 blocks.
C23_SearchTerminates ==
  probe.pc = "done" =>
    LET B == Height(probe.ts)
        n == Len(probe.probes)
        Width(k) == probe.ranges[k][2] - probe.ranges[k][1]
    IN /\ probe.result \in 0..B
       /\ n >= 1
       /\ n <= FloorLog2(B + 1) + 1
       /\ Len(probe.ranges) \in {n, n + 1}
       /\ probe.ranges[1] = <<0, B>>
       /\ \A k \in 1..n :
            probe.probes[k] = (probe.ranges[k][1] + probe.ranges[k][2]) \div 2
       /\ \A k \in 1..(Len(probe.ranges) - 1) :
            /\ probe.ranges[k + 1][1] >= probe.ranges[k][1]
            /\ probe.ranges[k + 1][2] <= probe.ranges[k][2]
            /\ Width(k + 1) < Width(k)

\* a search on the highest chain has used all the probes it may use
C23_MostProbes ==
  /\ probe.pc = "done"
  /\ Height(probe.ts) = MaxHeight
  /\ Len(probe.probes) = FloorLog2(MaxHeight + 1) + 1
  /\ probe.avail = DOMAIN probe.ts

\* the run of source s that would start now is one the model starts
WithinBounds(s) ==
  CASE s \in TimestampSources ->
         IntervalsToProcess(now, getLastFetchedTimestamp(store, s), s) <= MaxIntervals
    [] s = "ethena" -> LatestBlock(now) - getLastProcessedBlock(blockStore) <= MaxBlocks
    [] s = "morpho" -> TRUE

\* the cursors of the sources other than s are the same after the step
OtherCursorsKept(s) ==
  /\ \A k \in TimestampKeys \ KeysOf(s) : store'[k] = store[k]
  /\ s # "ethena" => blockStore' = blockStore

\* C24: in the initial fetch the fetch of the next source starts as soon as the one
\* before has returned, whatever its outcome; the sources are started in the order
\* ethena, morpho, spark, mountain; and no step of a run, the step that ends it
\* Aborted included, changes the cursor of another source.
C24_SourcesIndependent ==
  /\ [](\A n \in 0..3 :
          (/\ initPos = n
           /\ initRun # 0 => run[initRun].pc \in Outcomes
           /\ WithinBounds(<<"ethena", "morpho", "spark", "mountain">>[n + 1]))
            => ENABLED InitialFetch)
  /\ [][/\ initPos' # initPos
            => /\ initPos' = initPos + 1
               /\ run'[initRun'].src = <<"ethena", "morpho", "spark", "mountain">>[initPos']
               /\ initRun # 0 => run[initRun].pc \in Outcomes
        /\ \A r \in RunIds :
             (InFlight(r) /\ run'[r].pc # run[r].pc) => OtherCursorsKept(run[r].src)
     ]_vars

\* all four fetches of the initial fetch have been started, the last one after the
\* fetch of spark ended Aborted
C24_AllStartedAfterAbort ==
  /\ initPos = 4
  /\ \E r \in RunIds : run[r].src = "spark" /\ run[r].pc = "Aborted"
  /\ run[initRun].src = "mountain"
  /\ run[initRun].pc # "SkippedNoWork"

\* C25: with no two ethena runs in flight together, a run that moves the block
\* cursor has scanned the blocks from the cursor it found + 1 up to the cursor it
\* leaves, so the ranges of these runs follow each other with no gap and no block
\* twice; and no two runs have written a point for the same log.
C25_RangesContiguous ==
  /\ [][blockStore' # blockStore
          => \E r \in RunIds :
               /\ run[r].src = "ethena"
               /\ run[r].pc \in {"getLogs", "logs"}
               /\ run'[r].pc # run[r].pc
               /\ run[r].last = blockStore
               /\ blockStore' = run[r].latest
               /\ blockStore' > blockStore
     ]_vars
  /\ [](\A p, q \in EthenaPoints : p.ts = q.ts => p.run = q.run)
  /\ [](blockStore >= INITIAL_BLOCK)

\* two runs have each moved the cursor and committed a point of their own range
C25_TwoRangesScanned ==
  \E p, q \in sink :
    /\ p.protocol = "ethena" /\ q.protocol = "ethena"
    /\ p.run # q.run
    /\ p.ts < q.ts
    /\ q.ts <= BlockTimestamp(blockStore)
    /\ \A r \in RunIds : run[r].src = "ethena" /\ run[r].pc = "Completed"

\* the mountain points in the sink, and whether interval k of the range has one
MountainSamples == {<<p.ts, p.apy>> : p \in {q \in sink : q.protocol = "mountain"}}
Emitted(k) ==
  \E p \in sink : p.protocol = "mountain"
                    /\ p.ts = StartTimestamp + k * interval("mountain")

\* The samples of one run over the intervals k..n that starts interval k with the
\* carry-over previousMultiplier and gets, at every interval, the reading the split
\* runs got there: the value of the chain where they emitted, none where they did not.
RECURSIVE SingleRun(_, _, _)
SingleRun(k, n, previousMultiplier) ==
  IF k > n THEN {}
  ELSE IF Emitted(k)
       THEN {<<StartTimestamp + k * interval("mountain"),
               MountainApy(probe.multiplier[k], previousMultiplier)>>}
              \cup SingleRun(k + 1, n, probe.multiplier[k])
       ELSE SingleRun(k + 1, n, previousMultiplier)

\* C26: on a chain that does not change, two mountain runs that completed one after
\* the other have committed the samples that one run over the whole range, seeded at
\* the anchor and given the same readings, commits.
C26_SplitEqualsSingle ==
  \A r1, r2 \in RunIds :
    (/\ r1 # r2
     /\ \A r \in {r1, r2} :
          /\ run[r].src = "mountain"
          /\ run[r].pc = "Completed"
          /\ "cursor" \in run[r].effects
     /\ probe.multiplier[0] # 0)
      => MountainSamples = SingleRun(1, Len(planned["mountain"]), probe.multiplier[0])

====
